---- MODULE Spec2Model ----
(***************************************************************************)
(* A model of the in-memory OLAP storage of aclivo/fast (storage.go).      *)
(*                                                                         *)
(* Strings are sequences of characters, so that strings.Join is computed   *)
(* and two different tuples of strings can be seen to join to one key.     *)
(* A Go map is a function whose DOMAIN is the set of keys present.         *)
(*                                                                         *)
(* The program is modelled at two grains that share the sub-store          *)
(* operators (addCube, addElement, children, ...):                         *)
(*   - one caller: every method of *storage is one action (AddCube, ...),  *)
(*     the select and the sub-store call together;                         *)
(*   - several callers: a call is a sequence of steps of a goroutine       *)
(*     (Invoke, the select, Lock/RLock, the body, Unlock/RUnlock), with    *)
(*     the sync.RWMutex of each sub-store as state.                        *)
(***************************************************************************)
EXTENDS Integers, Sequences, FiniteSets, TLC

VARIABLES
    delay,        \* storage.delay, fixed by NewStorage
    cubes,        \* cubes.cubes: name -> Cube
    dimensions,   \* dimensions.dimensions: name -> Dimension
    elements,     \* elements.elements: hash(dim, name) -> Element
    components,   \* elements.components: hash(parent) -> list of hash(child)
    cells,        \* cells.cells: hash(cube, hash(coords...)) -> Cell
    last,         \* one caller: the call that returned last, and its result
    ref,          \* history: what was passed to the calls that were dispatched
    pc,           \* several callers: where each goroutine is in its call
    call,         \* several callers: the call each goroutine is in
    ctxDone,      \* several callers: whether the call's ctx.Done() is closed
    timer,        \* several callers: time left until time.After(s.delay) fires
    res,          \* several callers: what the call returned
    track,        \* history: per goroutine, what its call has done so far
    writer,       \* per sub-store RWMutex: the goroutine that called Lock
    readers,      \* per sub-store RWMutex: read locks held, per goroutine
    ncalls        \* number of calls invoked so far (bounded by MaxCalls)

storeVars == <<cubes, dimensions, elements, components, cells>>
seqVars == <<last>>
conVars == <<pc, call, ctxDone, timer, res, track, writer, readers, ncalls>>
vars == <<delay, cubes, dimensions, elements, components, cells, last, ref,
          pc, call, ctxDone, timer, res, track, writer, readers, ncalls>>

----------------------------------------------------------------------------
(* Bounds of the model *)

\* the configured delays explored are 0..MaxDelay (in ticks)
MaxDelay == 1
\* the stores hold at most MaxSize entries (map entries and hierarchy edges)
MaxSize == 4
\* several callers: the number of goroutines
NumThreads == 2
\* several callers: the number of calls made in all
MaxCalls == 2

----------------------------------------------------------------------------
(* Strings *)

sEmpty == <<>>
sA == <<"a">>
sB == <<"b">>
sAHA == <<"a", "#", "a">>

RECURSIVE Join(_, _)
\* strings.Join(strs, sep)
Join(strs, sep) ==
    IF Len(strs) = 0 THEN <<>>
    ELSE IF Len(strs) = 1 THEN strs[1]
    ELSE strs[1] \o sep \o Join(Tail(strs), sep)

\* hash(strs ...string): the parts joined with "#", whatever they contain
hash(strs) == Join(strs, <<"#">>)

----------------------------------------------------------------------------
(* Maps *)

EmptyMap == <<>>

Has(m, k) == k \in DOMAIN m

Put(m, k, v) == [x \in (DOMAIN m) \cup {k} |-> IF x = k THEN v ELSE m[x]]

----------------------------------------------------------------------------
(* The olap types, as far as storage.go reads them; Payload stands for the  *)
(* fields storage.go stores verbatim and never reads.                       *)

Cube(name, payload) == [Name |-> name, Payload |-> payload]
Dimension(name, payload) == [Name |-> name, Payload |-> payload]
Element(dim, name) == [Dimension |-> dim, Name |-> name]
Cell(cube, els, value) == [Cube |-> cube, Elements |-> els, Value |-> value]

\* olap.Cube{}, olap.Dimension{}, olap.Element{}, olap.Cell{}
ZeroCube == Cube(sEmpty, 0)
ZeroDimension == Dimension(sEmpty, 0)
ZeroElement == Element(sEmpty, sEmpty)
ZeroCell == Cell(sEmpty, <<>>, 0)

\* what a call returns: the error ("nil" for none) and the value
Res(err, val) == [err |-> err, val |-> val]
NoVal == <<>>

\* a sub-store call's outcome: the map(s) afterwards and what is returned
Upd(st, r) == [res |-> r, st |-> st]

----------------------------------------------------------------------------
(* cubes *)

\* a faulty addCube: a cube whose name is present is not replaced
addCubeKeepFirst(m, cube) ==
    IF Has(m, cube.Name)
    THEN Upd(m, Res("nil", NoVal))
    ELSE Upd(Put(m, cube.Name, cube), Res("nil", NoVal))

addCube(m, cube) ==
    Upd(Put(m, cube.Name, cube), Res("nil", NoVal))

getCubeByName(m, name) ==
    Res("nil", IF Has(m, name) THEN m[name] ELSE ZeroCube)

cubeExists(m, name) == Res("nil", Has(m, name))

----------------------------------------------------------------------------
(* dimensions *)

\* a faulty addDimension: the check for an existing name is left out
addDimensionNoCheck(m, dim) ==
    Upd(Put(m, dim.Name, dim), Res("nil", NoVal))

addDimension(m, dim) ==
    IF Has(m, dim.Name)
    THEN Upd(m, Res("ErrDimensionAlreadyExists", NoVal))
    ELSE Upd(Put(m, dim.Name, dim), Res("nil", NoVal))

getDimensionByName(m, name) ==
    IF ~Has(m, name)
    THEN Res("ErrDimensionNotFound", ZeroDimension)
    ELSE Res("nil", m[name])

dimensionExists(m, name) == Res("nil", Has(m, name))

----------------------------------------------------------------------------
(* elements *)

\* a faulty addElement: an element whose key is present is replaced before
\* the error is returned
addElementWriteThenFail(m, el) ==
    LET h == hash(<<el.Dimension, el.Name>>) IN
    IF Has(m, h)
    THEN Upd(Put(m, h, el), Res("ErrElementAlreadyExists", NoVal))
    ELSE Upd(Put(m, h, el), Res("nil", NoVal))

addElement(m, el) ==
    LET h == hash(<<el.Dimension, el.Name>>) IN
    IF Has(m, h)
    THEN Upd(m, Res("ErrElementAlreadyExists", NoVal))
    ELSE Upd(Put(m, h, el), Res("nil", NoVal))

getElementByName(m, dim, el) ==
    LET h == hash(<<dim, el>>) IN
    IF ~Has(m, h)
    THEN Res("ErrElementNotFound", ZeroElement)
    ELSE Res("nil", m[h])

elementExists(m, dim, name) == Res("nil", Has(m, hash(<<dim, name>>)))

\* a faulty addComponent: the child is put at the head of the list
addComponentAtHead(m, tot, el) ==
    LET ht == hash(<<tot.Dimension, tot.Name>>)
        he == hash(<<el.Dimension, el.Name>>)
        m1 == IF ~Has(m, ht) THEN Put(m, ht, <<>>) ELSE m
    IN  IF \E i \in DOMAIN m1[ht] : m1[ht][i] = he
        THEN Upd(m1, Res("ErrComponentAlreadyExists", NoVal))
        ELSE Upd(Put(m1, ht, <<he>> \o m1[ht]), Res("nil", NoVal))

\* a faulty addComponent: the loop looking for the child is left out
addComponentNoCheck(m, tot, el) ==
    LET ht == hash(<<tot.Dimension, tot.Name>>)
        he == hash(<<el.Dimension, el.Name>>)
        m1 == IF ~Has(m, ht) THEN Put(m, ht, <<>>) ELSE m
    IN  Upd(Put(m1, ht, Append(m1[ht], he)), Res("nil", NoVal))

addComponent(m, tot, el) ==
    LET ht == hash(<<tot.Dimension, tot.Name>>)
        he == hash(<<el.Dimension, el.Name>>)
        m1 == IF ~Has(m, ht) THEN Put(m, ht, <<>>) ELSE m
    IN  IF \E i \in DOMAIN m1[ht] : m1[ht][i] = he
        THEN Upd(m1, Res("ErrComponentAlreadyExists", NoVal))
        ELSE Upd(Put(m1, ht, Append(m1[ht], he)), Res("nil", NoVal))

componentExists(comps, dim, name) == Res("nil", Has(comps, hash(<<dim, name>>)))

children(els, comps, dim, name) ==
    LET h == hash(<<dim, name>>) IN
    IF ~componentExists(comps, dim, name).val
    THEN Res("ErrComponentNotFound", <<>>)
    ELSE LET ks == SelectSeq(comps[h], LAMBDA k : Has(els, k))
         IN  Res("nil", [i \in 1..Len(ks) |-> els[ks[i]]])

----------------------------------------------------------------------------
(* cells *)

\* a faulty key: one join of the cube and the coordinates
cellKeyFlat(cube, els) == hash(<<cube>> \o els)

cellKey(cube, els) == hash(<<cube, hash(els)>>)

addCell(m, cell) ==
    Upd(Put(m, cellKey(cell.Cube, cell.Elements), cell), Res("nil", NoVal))

getCellByName(m, cube, els) ==
    LET h == cellKey(cube, els) IN
    IF Has(m, h) THEN Res("nil", m[h]) ELSE Res("ErrCellNotFound", ZeroCell)

----------------------------------------------------------------------------
(* Calls.  A call of a method of *storage is a record of one shape for all  *)
(* methods: kind is the method; a, b are the first (dimension, name) or the *)
(* name, cube or dimension; c, d the second element; els the coordinates;   *)
(* v the payload or the value.                                              *)

Call(kind, a, b, c, d, els, v) ==
    [v |-> v, els |-> els, kind |-> kind, a |-> a, b |-> b, c |-> c, d |-> d]

OpAddCube(cube) == Call("AddCube", cube.Name, sEmpty, sEmpty, sEmpty, <<>>, cube.Payload)
OpGetCubeByName(name) == Call("GetCubeByName", name, sEmpty, sEmpty, sEmpty, <<>>, 0)
OpCubeExists(name) == Call("CubeExists", name, sEmpty, sEmpty, sEmpty, <<>>, 0)
OpAddDimension(dim) == Call("AddDimension", dim.Name, sEmpty, sEmpty, sEmpty, <<>>, dim.Payload)
OpGetDimensionByName(name) == Call("GetDimensionByName", name, sEmpty, sEmpty, sEmpty, <<>>, 0)
OpDimensionExists(name) == Call("DimensionExists", name, sEmpty, sEmpty, sEmpty, <<>>, 0)
OpAddElement(el) == Call("AddElement", el.Dimension, el.Name, sEmpty, sEmpty, <<>>, 0)
OpGetElementByName(dim, el) == Call("GetElementByName", dim, el, sEmpty, sEmpty, <<>>, 0)
OpElementExists(dim, name) == Call("ElementExists", dim, name, sEmpty, sEmpty, <<>>, 0)
OpAddComponent(tot, el) ==
    Call("AddComponent", tot.Dimension, tot.Name, el.Dimension, el.Name, <<>>, 0)
OpComponentExists(dim, name) == Call("ComponentExists", dim, name, sEmpty, sEmpty, <<>>, 0)
OpChildren(dim, name) == Call("Children", dim, name, sEmpty, sEmpty, <<>>, 0)
OpAddCell(cell) == Call("AddCell", cell.Cube, sEmpty, sEmpty, sEmpty, cell.Elements, cell.Value)
OpGetCellByName(cube, els) == Call("GetCellByName", cube, sEmpty, sEmpty, sEmpty, els, 0)

\* the arguments of a call, as the olap values they are
CubeOf(c) == Cube(c.a, c.v)
DimensionOf(c) == Dimension(c.a, c.v)
TotOf(c) == Element(c.a, c.b)
ElOf(c) == Element(c.c, c.d)
CellOf(c) == Cell(c.a, c.els, c.v)

\* the sub-store a method calls into (each has its own RWMutex)
StoreOf(kind) ==
    CASE kind \in {"AddCube", "GetCubeByName", "CubeExists"} -> "cubes"
      [] kind \in {"AddDimension", "GetDimensionByName", "DimensionExists"} -> "dimensions"
      [] kind \in {"AddCell", "GetCellByName"} -> "cells"
      [] OTHER -> "elements"

Stores == {"cubes", "dimensions", "elements", "cells"}

\* the methods whose sub-store call takes Lock; the others take RLock
IsWrite(kind) ==
    kind \in {"AddCube", "AddDimension", "AddElement", "AddComponent", "AddCell"}

\* what a method returns beside ctx.Err() on the ctx.Done() branch
ZeroVal(kind) ==
    CASE kind = "GetCubeByName" -> ZeroCube
      [] kind = "GetDimensionByName" -> ZeroDimension
      [] kind = "GetElementByName" -> ZeroElement
      [] kind = "GetCellByName" -> ZeroCell
      [] kind \in {"CubeExists", "DimensionExists", "ElementExists", "ComponentExists"} -> FALSE
      [] OTHER -> <<>>

\* the five maps as one record
Maps(cs, ds, es, ps, ls) ==
    [cubes |-> cs, dimensions |-> ds, elements |-> es, components |-> ps, cells |-> ls]

Now == Maps(cubes, dimensions, elements, components, cells)

\* a faulty storage: AddElement looks the element's dimension up first
RunCheckingDimension(st, c) ==
    IF c.kind = "AddElement" /\ ~Has(st.dimensions, c.a)
    THEN Upd(st, Res("ErrDimensionNotFound", NoVal))
    ELSE
        CASE c.kind = "AddCube" ->
                LET o == addCube(st.cubes, CubeOf(c))
                IN  Upd([st EXCEPT !.cubes = o.st], o.res)
          [] c.kind = "GetCubeByName" -> Upd(st, getCubeByName(st.cubes, c.a))
          [] c.kind = "CubeExists" -> Upd(st, cubeExists(st.cubes, c.a))
          [] c.kind = "AddDimension" ->
                LET o == addDimension(st.dimensions, DimensionOf(c))
                IN  Upd([st EXCEPT !.dimensions = o.st], o.res)
          [] c.kind = "GetDimensionByName" -> Upd(st, getDimensionByName(st.dimensions, c.a))
          [] c.kind = "DimensionExists" -> Upd(st, dimensionExists(st.dimensions, c.a))
          [] c.kind = "AddElement" ->
                LET o == addElement(st.elements, TotOf(c))
                IN  Upd([st EXCEPT !.elements = o.st], o.res)
          [] c.kind = "GetElementByName" -> Upd(st, getElementByName(st.elements, c.a, c.b))
          [] c.kind = "ElementExists" -> Upd(st, elementExists(st.elements, c.a, c.b))
          [] c.kind = "AddComponent" ->
                LET o == addComponent(st.components, TotOf(c), ElOf(c))
                IN  Upd([st EXCEPT !.components = o.st], o.res)
          [] c.kind = "ComponentExists" -> Upd(st, componentExists(st.components, c.a, c.b))
          [] c.kind = "Children" -> Upd(st, children(st.elements, st.components, c.a, c.b))
          [] c.kind = "AddCell" ->
                LET o == addCell(st.cells, CellOf(c))
                IN  Upd([st EXCEPT !.cells = o.st], o.res)
          [] c.kind = "GetCellByName" -> Upd(st, getCellByName(st.cells, c.a, c.els))

\* the delay branch of each method: the sub-store call it makes on the maps
\* st, giving the maps afterwards and what is returned
Run(st, c) ==
    CASE c.kind = "AddCube" ->
            LET o == addCube(st.cubes, CubeOf(c))
            IN  Upd([st EXCEPT !.cubes = o.st], o.res)
      [] c.kind = "GetCubeByName" -> Upd(st, getCubeByName(st.cubes, c.a))
      [] c.kind = "CubeExists" -> Upd(st, cubeExists(st.cubes, c.a))
      [] c.kind = "AddDimension" ->
            LET o == addDimension(st.dimensions, DimensionOf(c))
            IN  Upd([st EXCEPT !.dimensions = o.st], o.res)
      [] c.kind = "GetDimensionByName" -> Upd(st, getDimensionByName(st.dimensions, c.a))
      [] c.kind = "DimensionExists" -> Upd(st, dimensionExists(st.dimensions, c.a))
      [] c.kind = "AddElement" ->
            LET o == addElement(st.elements, TotOf(c))
            IN  Upd([st EXCEPT !.elements = o.st], o.res)
      [] c.kind = "GetElementByName" -> Upd(st, getElementByName(st.elements, c.a, c.b))
      [] c.kind = "ElementExists" -> Upd(st, elementExists(st.elements, c.a, c.b))
      [] c.kind = "AddComponent" ->
            LET o == addComponent(st.components, TotOf(c), ElOf(c))
            IN  Upd([st EXCEPT !.components = o.st], o.res)
      [] c.kind = "ComponentExists" -> Upd(st, componentExists(st.components, c.a, c.b))
      [] c.kind = "Children" -> Upd(st, children(st.elements, st.components, c.a, c.b))
      [] c.kind = "AddCell" ->
            LET o == addCell(st.cells, CellOf(c))
            IN  Upd([st EXCEPT !.cells = o.st], o.res)
      [] c.kind = "GetCellByName" -> Upd(st, getCellByName(st.cells, c.a, c.els))

\* the number of entries the maps hold: map entries and hierarchy edges
Size(st) ==
    Cardinality(DOMAIN st.cubes) + Cardinality(DOMAIN st.dimensions)
    + Cardinality(DOMAIN st.elements) + Cardinality(DOMAIN st.cells)
    + Cardinality(UNION {{<<k, i>> : i \in DOMAIN st.components[k]} : k \in DOMAIN st.components})

----------------------------------------------------------------------------
(* History: the values handed to the dispatched calls, by what they name    *)
(* (not by the derived key), to state what a caller expects to find.        *)
(*   dims      the dimensions whose AddDimension returned nil, in the order *)
(*             of the calls                                                 *)
(*   passed    the elements handed to an AddElement that was dispatched     *)
(*   els       the elements whose AddElement returned nil                   *)
(*   edges     parent -> the children whose AddComponent returned nil,      *)
(*             in the order of the calls                                    *)
(*   cubes     name -> the cube of the latest AddCube                       *)
(*   cells     (cube, coordinates) -> the cell of the latest AddCell        *)
(*   over      the names whose cube an AddCube has replaced by another      *)

RefInit ==
    [cubes |-> EmptyMap, cells |-> EmptyMap, els |-> {}, dims |-> <<>>,
     passed |-> {}, edges |-> EmptyMap, over |-> {}]

Addr(cube, els) == [Cube |-> cube, Elements |-> els]

Log(h, c, r) ==
    CASE c.kind = "AddCube" ->
            [h EXCEPT !.cubes = Put(h.cubes, c.a, CubeOf(c)),
                      !.over = IF Has(h.cubes, c.a) /\ h.cubes[c.a] # CubeOf(c)
                               THEN h.over \cup {c.a} ELSE h.over]
      [] c.kind = "AddDimension" /\ r.err = "nil" ->
            [h EXCEPT !.dims = Append(h.dims, DimensionOf(c))]
      [] c.kind = "AddElement" ->
            [h EXCEPT !.passed = h.passed \cup {TotOf(c)},
                      !.els = IF r.err = "nil" THEN h.els \cup {TotOf(c)} ELSE h.els]
      [] c.kind = "AddComponent" /\ r.err = "nil" ->
            [h EXCEPT !.edges =
                Put(h.edges, TotOf(c),
                    Append(IF Has(h.edges, TotOf(c)) THEN h.edges[TotOf(c)] ELSE <<>>,
                           ElOf(c)))]
      [] c.kind = "AddCell" -> [h EXCEPT !.cells = Put(h.cells, Addr(c.a, c.els), CellOf(c))]
      [] OTHER -> h

----------------------------------------------------------------------------
(* The inputs the callers draw from *)

Payloads == {1, 2}
CubeNames == {sA, sB}
CubeIn == {Cube(n, p) : n \in CubeNames, p \in Payloads}
DimNames == {sA, sB}
DimIn == {Dimension(n, p) : n \in DimNames, p \in Payloads}
\* ("a", "a#a"), ("a#a", "a") and ("b", "a") are three elements
ElemIn == {Element(sA, sAHA), Element(sAHA, sA), Element(sB, sA)}
\* the elements used as parents
ParentIn == {Element(sA, sAHA), Element(sB, sA)}
\* coordinate tuples: two pairs of permutations, and the empty tuple
CoordIn == {<<sA, sAHA>>, <<sAHA, sA>>, <<sA, sB>>, <<sB, sA>>, <<>>}
CellCubes == {sA}
Values == {1, 2}
CellIn == {Cell(x, t, v) : x \in CellCubes, t \in CoordIn, v \in Values}

----------------------------------------------------------------------------
(* The initial state: NewStorage(delay), no call made *)

Threads == 1..NumThreads

NoCall == Call("none", sEmpty, sEmpty, sEmpty, sEmpty, <<>>, 0)
NoRes == Res("none", NoVal)
Last(c, r) == [call |-> c, res |-> r]
\* history of a call: dispatched, the delay branch was taken; touched, the
\* call has used its sub-store (the lock or the maps); inTime, ctx was
\* canceled while the select waited for the delay; early, ctx was canceled
\* when the method was called
NoTrack == [dispatched |-> FALSE, touched |-> FALSE, inTime |-> FALSE, early |-> FALSE]

Init ==
    /\ delay \in 0..MaxDelay
    /\ cubes = EmptyMap
    /\ dimensions = EmptyMap
    /\ elements = EmptyMap
    /\ components = EmptyMap
    /\ cells = EmptyMap
    /\ last = Last(NoCall, NoRes)
    /\ ref = RefInit
    /\ pc = [t \in Threads |-> "idle"]
    /\ call = [t \in Threads |-> NoCall]
    /\ ctxDone = [t \in Threads |-> FALSE]
    /\ timer = [t \in Threads |-> 0]
    /\ res = [t \in Threads |-> NoRes]
    /\ track = [t \in Threads |-> NoTrack]
    /\ writer = [s \in Stores |-> 0]
    /\ readers = [s \in Stores |-> [t \in Threads |-> 0]]
    /\ ncalls = 0

----------------------------------------------------------------------------
(* The select of every method:                                              *)
(*     select {                                                             *)
(*     case <-time.After(s.delay): return s.<store>.<op>(...)               *)
(*     case <-ctx.Done():          return ..., ctx.Err()                    *)
(*     }                                                                    *)
(* A case can be chosen when its channel is ready; when both are, either.   *)

\* a faulty select: the timer's case can be chosen before the timer fires
SelectCasesNoTimer(timerFired, done) ==
    {b \in {"delay", "ctx"} : b = "delay" \/ (b = "ctx" /\ done)}

SelectCases(timerFired, done) ==
    {b \in {"delay", "ctx"} : (b = "delay" /\ timerFired) \/ (b = "ctx" /\ done)}

SetMaps(st) ==
    /\ cubes' = st.cubes
    /\ dimensions' = st.dimensions
    /\ elements' = st.elements
    /\ components' = st.components
    /\ cells' = st.cells

----------------------------------------------------------------------------
(* One caller: a method of *storage from call to return.  done says         *)
(* whether ctx is canceled before the delay has elapsed (at the call or     *)
(* while the select waits); the timer has fired at the select when the      *)
(* delay is zero, and otherwise the select waits for the first of the two.  *)

Method(c) ==
    \E done \in BOOLEAN :
      \E b \in SelectCases(delay = 0 \/ ~done, done) :
        /\ IF b = "ctx"
           THEN /\ last' = Last(c, Res("Canceled", ZeroVal(c.kind)))
                /\ UNCHANGED <<storeVars, ref>>
           ELSE LET o == Run(Now, c) IN
                /\ Size(o.st) <= MaxSize
                /\ SetMaps(o.st)
                /\ last' = Last(c, o.res)
                /\ ref' = Log(ref, c, o.res)
        /\ UNCHANGED <<delay, conVars>>

AddCube == \E cube \in CubeIn : Method(OpAddCube(cube))
GetCubeByName == \E name \in CubeNames : Method(OpGetCubeByName(name))
CubeExists == \E name \in CubeNames : Method(OpCubeExists(name))

AddDimension == \E dim \in DimIn : Method(OpAddDimension(dim))
GetDimensionByName == \E name \in DimNames : Method(OpGetDimensionByName(name))
DimensionExists == \E name \in DimNames : Method(OpDimensionExists(name))

AddElement == \E el \in ElemIn : Method(OpAddElement(el))
GetElementByName == \E el \in ElemIn : Method(OpGetElementByName(el.Dimension, el.Name))
ElementExists == \E el \in ElemIn : Method(OpElementExists(el.Dimension, el.Name))
AddComponent == \E tot \in ParentIn, el \in ElemIn : Method(OpAddComponent(tot, el))
ComponentExists == \E el \in ElemIn : Method(OpComponentExists(el.Dimension, el.Name))
Children == \E el \in ElemIn : Method(OpChildren(el.Dimension, el.Name))

AddCell == \E cell \in CellIn : Method(OpAddCell(cell))
GetCellByName == \E x \in CellCubes, t \in CoordIn : Method(OpGetCellByName(x, t))

NextCubes == AddCube \/ GetCubeByName \/ CubeExists
NextDimensions == AddDimension \/ GetDimensionByName \/ DimensionExists
NextElements ==
    \/ AddElement
    \/ GetElementByName
    \/ ElementExists
    \/ AddComponent
    \/ ComponentExists
    \/ Children
NextCells == AddCell \/ GetCellByName

\* the cell methods on names and coordinates that may be empty
KeyCubes == {sA, sEmpty}
KeyCoords == {<<>>, <<sEmpty>>, <<sA>>, <<sEmpty, sA>>}
AddCellKeyed == \E x \in KeyCubes, t \in KeyCoords : Method(OpAddCell(Cell(x, t, 1)))
GetCellByNameKeyed == \E x \in KeyCubes, t \in KeyCoords : Method(OpGetCellByName(x, t))
NextCellKeys == AddCellKeyed \/ GetCellByNameKeyed

\* calls of every method, on all the sub-stores of one storage
StorageIn ==
    {OpAddCube(Cube(sA, 1)), OpAddCube(Cube(sA, 2)),
     OpGetCubeByName(sA), OpCubeExists(sA),
     OpAddDimension(Dimension(sA, 1)), OpAddDimension(Dimension(sA, 2)),
     OpGetDimensionByName(sA), OpDimensionExists(sA),
     OpAddElement(Element(sA, sAHA)), OpAddElement(Element(sAHA, sA)),
     OpGetElementByName(sA, sAHA), OpElementExists(sA, sAHA),
     OpAddComponent(Element(sB, sA), Element(sA, sAHA)),
     OpAddComponent(Element(sB, sA), Element(sAHA, sA)),
     OpComponentExists(sB, sA), OpChildren(sB, sA),
     OpAddCell(Cell(sA, <<sA, sB>>, 1)), OpAddCell(Cell(sA, <<sA, sB>>, 2)),
     OpGetCellByName(sA, <<sA, sB>>)}
AnyMethod == \E c \in StorageIn : Method(c)

\* one caller using one sub-store
SpecCubes == Init /\ [][NextCubes]_vars
SpecDimensions == Init /\ [][NextDimensions]_vars
SpecElements == Init /\ [][NextElements]_vars
SpecCells == Init /\ [][NextCells]_vars
SpecCellKeys == Init /\ [][NextCellKeys]_vars
\* one caller using all the sub-stores
SpecStorage == Init /\ [][AnyMethod]_vars

----------------------------------------------------------------------------
(* Several callers.  Each goroutine t makes calls one after the other; a    *)
(* call goes                                                                *)
(*   idle/done -Invoke-> select -SelectCtx-> done                           *)
(*                       select -SelectDelay-> lock                         *)
(*   a writing method:   lock -WLock-> wwait -WGranted-> body               *)
(*   a reading method:   lock -RLock-> body    (Children: -> inner)         *)
(*   Children:           inner -RLockInner-> body                           *)
(*                       body -Body-> unlock -Unlock/RUnlock-> done         *)
(* Time is counted in ticks of the delay; a goroutine whose select has a    *)
(* ready case takes it before the next tick (the time a goroutine needs to  *)
(* reach or leave its select is short against a tick).  A delay of 0 is a   *)
(* timer that has fired when the select looks at it.                        *)

\* the calls several callers draw from
ConcIn ==
    {OpAddCube(Cube(sA, 1)),
     OpAddDimension(Dimension(sA, 1)), OpAddDimension(Dimension(sA, 2)),
     OpAddElement(Element(sA, sAHA)), OpAddElement(Element(sAHA, sA)),
     OpAddElement(Element(sB, sA)),
     OpGetElementByName(sA, sAHA),
     OpAddComponent(Element(sB, sA), Element(sA, sAHA)),
     OpAddComponent(Element(sB, sA), Element(sB, sA)),
     OpAddComponent(Element(sB, sA), Element(sAHA, sA)),
     OpChildren(sB, sA),
     OpAddCell(Cell(sA, <<sA, sB>>, 1))}

\* pc values at which the call has left the select by the delay branch
InStore == {"lock", "wwait", "inner", "body", "unlock"}

\* a method is called: time.After(s.delay) starts the timer and the select
\* is entered; early says whether ctx is canceled already
Invoke(t, c, early) ==
    /\ pc[t] \in {"idle", "done"}
    /\ ncalls < MaxCalls
    /\ ncalls' = ncalls + 1
    /\ pc' = [pc EXCEPT ![t] = "select"]
    /\ call' = [call EXCEPT ![t] = c]
    /\ ctxDone' = [ctxDone EXCEPT ![t] = early]
    /\ timer' = [timer EXCEPT ![t] = delay]
    /\ res' = [res EXCEPT ![t] = NoRes]
    /\ track' = [track EXCEPT ![t] = [NoTrack EXCEPT !.early = early]]
    /\ UNCHANGED <<delay, storeVars, last, ref, writer, readers>>

\* the caller cancels the ctx of its call, at any time before the call returns
Cancel(t) ==
    /\ pc[t] \in {"select"} \cup InStore
    /\ ~ctxDone[t]
    /\ ctxDone' = [ctxDone EXCEPT ![t] = TRUE]
    /\ track' = [track EXCEPT ![t].inTime = (pc[t] = "select" /\ timer[t] > 0)]
    /\ UNCHANGED <<delay, storeVars, last, ref, pc, call, timer, res, writer, readers, ncalls>>

\* whether the select of t has a case it can take
Ready(t) == pc[t] = "select" /\ SelectCases(timer[t] = 0, ctxDone[t]) # {}

\* one tick of time passes for the timers of the waiting selects
Tick ==
    /\ \E t \in Threads : pc[t] = "select" /\ timer[t] > 0
    /\ \A t \in Threads : ~Ready(t)
    /\ timer' = [t \in Threads |->
                    IF pc[t] = "select" /\ timer[t] > 0 THEN timer[t] - 1 ELSE timer[t]]
    /\ UNCHANGED <<delay, storeVars, last, ref, pc, call, ctxDone, res, track, writer, readers, ncalls>>

\* case <-ctx.Done(): return ctx.Err()
SelectCtx(t) ==
    /\ pc[t] = "select"
    /\ "ctx" \in SelectCases(timer[t] = 0, ctxDone[t])
    /\ pc' = [pc EXCEPT ![t] = "done"]
    /\ res' = [res EXCEPT ![t] = Res("Canceled", ZeroVal(call[t].kind))]
    /\ UNCHANGED <<delay, storeVars, last, ref, call, ctxDone, timer, track, writer, readers, ncalls>>

\* case <-time.After(s.delay): return s.<store>.<op>(...)
SelectDelay(t) ==
    /\ pc[t] = "select"
    /\ "delay" \in SelectCases(timer[t] = 0, ctxDone[t])
    /\ pc' = [pc EXCEPT ![t] = "lock"]
    /\ track' = [track EXCEPT ![t].dispatched = TRUE]
    /\ UNCHANGED <<delay, storeVars, last, ref, call, ctxDone, timer, res, writer, readers, ncalls>>

MyStore(t) == StoreOf(call[t].kind)

\* s.Lock(), first half: no other writer holds or awaits the lock; from now
\* on RLock blocks
WLock(t) ==
    /\ pc[t] = "lock"
    /\ IsWrite(call[t].kind)
    /\ writer[MyStore(t)] = 0
    /\ writer' = [writer EXCEPT ![MyStore(t)] = t]
    /\ pc' = [pc EXCEPT ![t] = "wwait"]
    /\ track' = [track EXCEPT ![t].touched = TRUE]
    /\ UNCHANGED <<delay, storeVars, last, ref, call, ctxDone, timer, res, readers, ncalls>>

\* a faulty Lock: the writer does not wait for the readers to leave
WGrantedNoWait(t) ==
    /\ pc[t] = "wwait"
    /\ pc' = [pc EXCEPT ![t] = "body"]
    /\ UNCHANGED <<delay, storeVars, last, ref, call, ctxDone, timer, res, track, writer, readers, ncalls>>

\* s.Lock(), second half: the readers that held the lock have released it
WGranted(t) ==
    /\ pc[t] = "wwait"
    /\ \A u \in Threads : readers[MyStore(t)][u] = 0
    /\ pc' = [pc EXCEPT ![t] = "body"]
    /\ UNCHANGED <<delay, storeVars, last, ref, call, ctxDone, timer, res, track, writer, readers, ncalls>>

\* s.RLock(): blocks while a writer holds or awaits the lock
RLock(t) ==
    /\ pc[t] = "lock"
    /\ ~IsWrite(call[t].kind)
    /\ writer[MyStore(t)] = 0
    /\ readers' = [readers EXCEPT ![MyStore(t)][t] = @ + 1]
    /\ pc' = [pc EXCEPT ![t] = IF call[t].kind = "Children" THEN "inner" ELSE "body"]
    /\ track' = [track EXCEPT ![t].touched = TRUE]
    /\ UNCHANGED <<delay, storeVars, last, ref, call, ctxDone, timer, res, writer, ncalls>>

\* children calls s.componentExists, which calls s.RLock() again
RLockInner(t) ==
    /\ pc[t] = "inner"
    /\ writer[MyStore(t)] = 0
    /\ readers' = [readers EXCEPT ![MyStore(t)][t] = @ + 1]
    /\ pc' = [pc EXCEPT ![t] = "body"]
    /\ UNCHANGED <<delay, storeVars, last, ref, call, ctxDone, timer, res, track, writer, ncalls>>

\* the sub-store method between taking and releasing its lock; in children,
\* componentExists releases its read lock on the way
Body(t) ==
    /\ pc[t] = "body"
    /\ LET o == Run(Now, call[t]) IN
        /\ SetMaps(o.st)
        /\ res' = [res EXCEPT ![t] = o.res]
        /\ ref' = Log(ref, call[t], o.res)
    /\ readers' = IF call[t].kind = "Children"
                  THEN [readers EXCEPT ![MyStore(t)][t] = @ - 1]
                  ELSE readers
    /\ pc' = [pc EXCEPT ![t] = "unlock"]
    /\ track' = [track EXCEPT ![t].touched = TRUE]
    /\ UNCHANGED <<delay, last, call, ctxDone, timer, writer, ncalls>>

\* defer s.Unlock()
Unlock(t) ==
    /\ pc[t] = "unlock"
    /\ IsWrite(call[t].kind)
    /\ writer' = [writer EXCEPT ![MyStore(t)] = 0]
    /\ pc' = [pc EXCEPT ![t] = "done"]
    /\ UNCHANGED <<delay, storeVars, last, ref, call, ctxDone, timer, res, track, readers, ncalls>>

\* defer s.RUnlock()
RUnlock(t) ==
    /\ pc[t] = "unlock"
    /\ ~IsWrite(call[t].kind)
    /\ readers' = [readers EXCEPT ![MyStore(t)][t] = @ - 1]
    /\ pc' = [pc EXCEPT ![t] = "done"]
    /\ UNCHANGED <<delay, storeVars, last, ref, call, ctxDone, timer, res, track, writer, ncalls>>

\* a step of goroutine t once its call is past the select
StoreStep(t) ==
    \/ WLock(t)
    \/ WGranted(t)
    \/ RLock(t)
    \/ RLockInner(t)
    \/ Body(t)
    \/ Unlock(t)
    \/ RUnlock(t)

Next ==
    \/ \E t \in Threads, c \in ConcIn, early \in BOOLEAN : Invoke(t, c, early)
    \/ \E t \in Threads : Cancel(t)
    \/ Tick
    \/ \E t \in Threads : SelectCtx(t)
    \/ \E t \in Threads : SelectDelay(t)
    \/ \E t \in Threads : StoreStep(t)

Spec == Init /\ [][Next]_vars

----------------------------------------------------------------------------
(* Helpers of the properties *)

Range(f) == {f[i] : i \in DOMAIN f}

\* the number of places of sequence q that hold x
Count(q, x) == Cardinality({i \in DOMAIN q : q[i] = x})

NoDup(q) == \A i, j \in DOMAIN q : q[i] = q[j] => i = j

\* x stands before y in sequence q
Before(q, x, y) == \E i, j \in DOMAIN q : i < j /\ q[i] = x /\ q[j] = y

\* t2 is t1 with its coordinates in another order
IsPermutation(t1, t2) ==
    /\ Len(t1) = Len(t2)
    /\ \E f \in [DOMAIN t1 -> DOMAIN t1] :
         /\ \A i, j \in DOMAIN t1 : f[i] = f[j] => i = j
         /\ \A i \in DOMAIN t1 : t2[i] = t1[f[i]]

\* the last call of the one caller was dispatched to its sub-store
Dispatched == last.call.kind # "none" /\ last.res.err # "Canceled"

KeyOf(el) == hash(<<el.Dimension, el.Name>>)

\* what the methods would return to a call made in the current state
GetElement(el) == getElementByName(elements, el.Dimension, el.Name)
ChildrenOf(el) == children(elements, components, el.Dimension, el.Name)

----------------------------------------------------------------------------
(* Properties of one caller *)

\* C2, as claimed: after AddComponent(p, c) has returned nil, Children(p)
\* holds c exactly once, the children in the order they were added, whether
\* or not c was registered with AddElement; the same edge is never added
\* twice (the second AddComponent yields ErrComponentAlreadyExists) and no
\* child list holds an identity twice.
C2_ChildrenIncludeEveryChild ==
    /\ \A p \in DOMAIN ref.edges :
         /\ ChildrenOf(p).err = "nil"
         /\ \A i \in DOMAIN ref.edges[p] : Count(ChildrenOf(p).val, ref.edges[p][i]) = 1
         /\ \A i, j \in DOMAIN ref.edges[p] :
              i < j => Before(ChildrenOf(p).val, ref.edges[p][i], ref.edges[p][j])
         /\ NoDup(ref.edges[p])
    /\ \A k \in DOMAIN components : NoDup(components[k])

\* C2, amended: after AddComponent(p, c) has returned nil, Children(p)
\* returns nil and holds c exactly once when AddElement(c) has returned nil,
\* before or after the edge was added; more precisely it holds exactly once
\* the element record stored under c's composite key (what
\* GetElementByName(c) returns) when there is one, and no record of that key
\* when there is none, so a child that was never registered is left out; the records of the children stand
\* in the order their edges were added; the same edge is never added twice
\* (the second AddComponent yields ErrComponentAlreadyExists) and no child
\* list holds an identity twice.
C2_ChildrenIncludeRegisteredChildren ==
    /\ \A p \in DOMAIN ref.edges :
         /\ ChildrenOf(p).err = "nil"
         /\ \A i \in DOMAIN ref.edges[p] :
              ref.edges[p][i] \in ref.els => Count(ChildrenOf(p).val, ref.edges[p][i]) = 1
         /\ \A i \in DOMAIN ref.edges[p] :
              IF GetElement(ref.edges[p][i]).err = "nil"
              THEN Count(ChildrenOf(p).val, GetElement(ref.edges[p][i]).val) = 1
              ELSE \A e \in Range(ChildrenOf(p).val) : KeyOf(e) # KeyOf(ref.edges[p][i])
         /\ \A i, j \in DOMAIN ref.edges[p] :
              (/\ i < j
               /\ GetElement(ref.edges[p][i]).err = "nil"
               /\ GetElement(ref.edges[p][j]).err = "nil")
              => Before(ChildrenOf(p).val, GetElement(ref.edges[p][i]).val,
                        GetElement(ref.edges[p][j]).val)
         /\ NoDup(ref.edges[p])
    /\ (Dispatched /\ last.call.kind = "AddComponent")
         => last.res.err \in {"nil", "ErrComponentAlreadyExists"}
    /\ \A k \in DOMAIN components : NoDup(components[k])

\* C2's case: Children(p) has returned two registered children of p, both
\* added with AddComponent
C2_Witness ==
    /\ Dispatched
    /\ last.call.kind = "Children"
    /\ TotOf(last.call) \in DOMAIN ref.edges
    /\ Len(ref.edges[TotOf(last.call)]) = 2
    /\ Len(last.res.val) = 2

\* C3: a name is added to the dimensions at most once (a second
\* AddDimension of the name yields ErrDimensionAlreadyExists), and
\* GetDimensionByName returns the dimension that was added first, unchanged.
C3_DimensionAddedOnce ==
    /\ \A i, j \in DOMAIN ref.dims : ref.dims[i].Name = ref.dims[j].Name => i = j
    /\ \A i \in DOMAIN ref.dims :
         getDimensionByName(dimensions, ref.dims[i].Name) = Res("nil", ref.dims[i])
    /\ (Dispatched /\ last.call.kind = "AddDimension")
         => \/ last.res.err = "nil" /\ DimensionOf(last.call) \in Range(ref.dims)
            \/ /\ last.res.err = "ErrDimensionAlreadyExists"
               /\ \E i \in DOMAIN ref.dims : ref.dims[i].Name = last.call.a

\* C3's case: AddDimension(d2) has failed for a name added before as another
\* dimension d1
C3_Witness ==
    /\ Dispatched
    /\ last.call.kind = "AddDimension"
    /\ last.res.err = "ErrDimensionAlreadyExists"
    /\ DimensionOf(last.call) \notin Range(ref.dims)

\* C4: GetElementByName returns e exactly for every e whose AddElement
\* returned nil, and ErrElementNotFound for every (dim, name) never passed to
\* AddElement.
C4_GetElementAfterAdd ==
    /\ \A e \in ref.els : GetElement(e) = Res("nil", e)
    /\ \A e \in ElemIn \ ref.passed : GetElement(e).err = "ErrElementNotFound"

\* C5: right after AddCell({x, t, v}), GetCellByName(x, t) returns the cell;
\* and GetCellByName(x, t2) returns ErrCellNotFound for a permutation t2 of
\* the coordinates t of an added cell when no cell was added under t2.
C5_CoordinateOrderSignificant ==
    /\ (Dispatched /\ last.call.kind = "AddCell")
         => getCellByName(cells, last.call.a, last.call.els) = Res("nil", CellOf(last.call))
    /\ \A ad \in DOMAIN ref.cells : \A t2 \in CoordIn :
         (/\ IsPermutation(ad.Elements, t2)
          /\ t2 # ad.Elements
          /\ Addr(ad.Cube, t2) \notin DOMAIN ref.cells)
         => getCellByName(cells, ad.Cube, t2).err = "ErrCellNotFound"

\* C6: the keys of distinct (dimension, element) pairs do not collide: an
\* element exists only if it was added, AddElement fails with
\* ErrElementAlreadyExists only for an element added before, ComponentExists
\* holds only of a parent an edge was added to, and AddComponent fails with
\* ErrComponentAlreadyExists only for an edge added before.
C6_KeysDoNotCollide ==
    /\ \A e \in ElemIn :
         elementExists(elements, e.Dimension, e.Name).val => e \in ref.els
    /\ \A e \in ElemIn :
         componentExists(components, e.Dimension, e.Name).val => e \in DOMAIN ref.edges
    /\ (Dispatched /\ last.call.kind = "AddElement" /\ last.res.err # "nil")
         => TotOf(last.call) \in ref.els
    /\ (Dispatched /\ last.call.kind = "AddComponent" /\ last.res.err # "nil")
         => /\ TotOf(last.call) \in DOMAIN ref.edges
            /\ ElOf(last.call) \in Range(ref.edges[TotOf(last.call)])

----------------------------------------------------------------------------
(* Properties of several callers *)

\* C1: every call dispatched to a sub-store returns: whenever calls are past
\* their select and have not returned, one of them can take its next step.
\* (Locks are released by such steps only, so a state where none of them can
\* step is a state where none of them ever returns.)
C1_DispatchedCallsReturn ==
    (\E t \in Threads : pc[t] \in InStore)
    => (\E t \in Threads : pc[t] \in InStore /\ ENABLED StoreStep(t))

\* C7: a call whose ctx is canceled before its delay has elapsed does not
\* take the delay branch; it returns the cancellation error with the zero
\* value and has taken no lock and run no sub-store method, so the stores
\* are as they were.
C7_CancelBeforeDelay ==
    \A t \in Threads :
        track[t].inTime
        => /\ pc[t] \in {"select", "done"}
           /\ ~track[t].dispatched
           /\ ~track[t].touched
           /\ pc[t] = "done" => res[t] = Res("Canceled", ZeroVal(call[t].kind))

\* C7's case: a call of a delaying storage was canceled while its timer ran
\* and has returned
C7_Witness ==
    \E t \in Threads :
        /\ delay > 0
        /\ track[t].inTime
        /\ ~track[t].early
        /\ pc[t] = "done"
        /\ res[t].err = "Canceled"

\* C8: a call invoked with a ctx that is canceled already returns the
\* cancellation error without touching a sub-store, whatever the delay.
C8_CanceledBeforeInvoke ==
    \A t \in Threads :
        (track[t].early /\ pc[t] # "select")
        => /\ pc[t] = "done"
           /\ res[t] = Res("Canceled", ZeroVal(call[t].kind))
           /\ ~track[t].touched

\* C9: a call that returns the cancellation error has taken no lock and run
\* no sub-store method; a call touches a sub-store only after taking the
\* delay branch, and then never returns the cancellation error, even if its
\* ctx is canceled meanwhile; and while a writer is between Lock and Unlock
\* no other call is inside the same sub-store, so its effect is applied as
\* one atomic step.
C9_CancelPrecedesAccess ==
    /\ \A t \in Threads :
         /\ (pc[t] = "done" /\ res[t].err = "Canceled")
              => ~track[t].touched /\ ~track[t].dispatched
         /\ track[t].touched => track[t].dispatched
         /\ pc[t] \in InStore => track[t].dispatched
         /\ (track[t].dispatched /\ pc[t] = "done") => res[t].err # "Canceled"
    /\ \A t, u \in Threads :
         (/\ t # u
          /\ pc[t] \in {"body", "unlock"}
          /\ IsWrite(call[t].kind)
          /\ pc[u] \in {"inner", "body", "unlock"})
         => MyStore(t) # MyStore(u)

\* C9's case: an AddComponent or AddCell was canceled after it took the
\* delay branch and has returned nil, next to a call that was canceled in its
\* select
C9_Witness ==
    \E t, u \in Threads :
        /\ pc[t] = "done"
        /\ call[t].kind \in {"AddComponent", "AddCell"}
        /\ ctxDone[t]
        /\ res[t].err = "nil"
        /\ pc[u] = "done"
        /\ res[u].err = "Canceled"

\* C10: when every goroutine has made one call, an AddElement, of pairwise
\* distinct (dim, name) pairs, and all have returned from the sub-store, all
\* have returned nil and every one of the elements is returned by
\* GetElementByName as it was added.
C10_ConcurrentAddElement ==
    (/\ ncalls = NumThreads
     /\ \A t \in Threads :
          /\ call[t].kind = "AddElement"
          /\ track[t].dispatched
          /\ pc[t] = "done"
     /\ \A t, u \in Threads : TotOf(call[t]) = TotOf(call[u]) => t = u)
    => \A t \in Threads :
          /\ res[t].err = "nil"
          /\ GetElement(TotOf(call[t])) = Res("nil", TotOf(call[t]))

----------------------------------------------------------------------------
(* Further properties of one caller *)

\* C11: AddCell never returns an error, and GetCellByName of a cube and
\* ordered coordinates returns the cell of the most recent AddCell of that
\* cube and those coordinates.
C11_LatestCellWins ==
    /\ (Dispatched /\ last.call.kind = "AddCell") => last.res.err = "nil"
    /\ \A ad \in DOMAIN ref.cells :
         /\ getCellByName(cells, ad.Cube, ad.Elements).err = "nil"
         /\ getCellByName(cells, ad.Cube, ad.Elements).val.Value = ref.cells[ad].Value

\* C13: AddCube never fails; GetCubeByName(name) returns the cube of the most
\* recent AddCube of that name and CubeExists(name) is true; for a name never
\* added GetCubeByName returns the zero cube with no error and CubeExists
\* is false.
C13_LatestCubeWins ==
    /\ (Dispatched /\ last.call.kind = "AddCube") => last.res.err = "nil"
    /\ \A n \in CubeNames :
         IF Has(ref.cubes, n)
         THEN /\ getCubeByName(cubes, n) = Res("nil", ref.cubes[n])
              /\ cubeExists(cubes, n) = Res("nil", TRUE)
         ELSE /\ getCubeByName(cubes, n) = Res("nil", ZeroCube)
              /\ cubeExists(cubes, n) = Res("nil", FALSE)

\* C13's case: GetCubeByName has returned the cube that replaced another of
\* its name, while the other name was never added
C13_Witness ==
    /\ Dispatched
    /\ last.call.kind = "GetCubeByName"
    /\ last.call.a \in ref.over
    /\ last.res = Res("nil", ref.cubes[last.call.a])
    /\ \E n \in CubeNames : ~Has(ref.cubes, n)

\* the children logged for the elements of S
LoggedChildren(S) ==
    UNION {IF Has(ref.edges, p) THEN Range(ref.edges[p]) ELSE {} : p \in S}

RECURSIVE Reach(_, _)
\* S and what is reached from S along at most n logged edges
Reach(S, n) == IF n = 0 THEN S ELSE Reach(S \cup LoggedChildren(S), n - 1)

\* the children of p, their children, and so on
Descendants(p) == Reach(LoggedChildren({p}), Cardinality(ElemIn))

\* C12: ComponentExists(dim, name) is true exactly when an AddComponent with
\* the parent (dim, name) has returned nil, and Children(dim, name) returns
\* ErrComponentNotFound exactly when ComponentExists(dim, name) is false.
C12_ComponentExistsIffParent ==
    \A e \in ElemIn :
        /\ componentExists(components, e.Dimension, e.Name).val <=> e \in DOMAIN ref.edges
        /\ ChildrenOf(e).err \in {"nil", "ErrComponentNotFound"}
        /\ ChildrenOf(e).err = "ErrComponentNotFound"
             <=> ~componentExists(components, e.Dimension, e.Name).val

\* C17: when Children(dim, name) returns nil, it returns the elements added
\* with AddElement among the direct children of (dim, name), in the order of
\* their edges, and nothing else: no element that is not a direct child.
C17_ChildrenAreDirectChildren ==
    \A p \in ElemIn :
        ChildrenOf(p).err = "nil"
        => ChildrenOf(p).val =
             SelectSeq(IF Has(ref.edges, p) THEN ref.edges[p] ELSE <<>>,
                       LAMBDA c : c \in ref.els)

\* C19: the edges added with AddComponent contain no cycle: no element is
\* its own child or its own descendant.
C19_HierarchyAcyclic ==
    \A p \in DOMAIN ref.edges : p \notin Descendants(p)

\* C14, as claimed: the key that addCell and getCellByName derive from a
\* cube and a coordinate tuple is the one join with "#" of the cube and the
\* coordinates, for every tuple, the empty one included; the two methods
\* derive the same key, so every cell is stored under the key of its own
\* cube and coordinates and is found right after it was added.
C14_KeyIsFlatJoin ==
    /\ (Dispatched /\ last.call.kind \in {"AddCell", "GetCellByName"})
         => cellKey(last.call.a, last.call.els) = hash(<<last.call.a>> \o last.call.els)
    /\ \A k \in DOMAIN cells : k = cellKey(cells[k].Cube, cells[k].Elements)
    /\ (Dispatched /\ last.call.kind = "AddCell")
         => getCellByName(cells, last.call.a, last.call.els) = Res("nil", CellOf(last.call))

\* C14, amended: the key is the one join with "#" of the cube and the
\* coordinates for every tuple that is not empty, tuples of empty strings
\* included; for the empty tuple it is the cube name followed by "#" (the
\* join of the cube and one empty string, not of the cube alone).  The two
\* methods derive the same key, so every cell is stored under the key of its
\* own cube and coordinates and is found right after it was added.
C14_KeyIsFlatJoinUnlessEmpty ==
    /\ (Dispatched /\ last.call.kind \in {"AddCell", "GetCellByName"})
         => cellKey(last.call.a, last.call.els) =
              IF last.call.els = <<>>
              THEN last.call.a \o <<"#">>
              ELSE hash(<<last.call.a>> \o last.call.els)
    /\ \A k \in DOMAIN cells : k = cellKey(cells[k].Cube, cells[k].Elements)
    /\ (Dispatched /\ last.call.kind = "AddCell")
         => getCellByName(cells, last.call.a, last.call.els) = Res("nil", CellOf(last.call))

\* C14's case: GetCellByName with no coordinates has found a cell, in a store
\* that holds a cell with an empty coordinate before a nonempty one
C14_Witness ==
    /\ Dispatched
    /\ last.call.kind = "GetCellByName"
    /\ last.call.els = <<>>
    /\ last.res.err = "nil"
    /\ \E k \in DOMAIN cells : cells[k].Elements = <<sEmpty, sA>>

\* C15: a call that returns an error (an AlreadyExists error, a NotFound
\* error or the cancellation error) leaves the five maps as they were.
C15_ErrorsChangeNothing ==
    [][last'.res.err # "nil" => UNCHANGED storeVars]_vars

\* C15's case: a second AddComponent of an edge has been rejected, the
\* parent's list in place
C15_Witness ==
    /\ Dispatched
    /\ last.call.kind = "AddComponent"
    /\ last.res.err = "ErrComponentAlreadyExists"
    /\ Has(components, KeyOf(TotOf(last.call)))
    /\ Len(components[KeyOf(TotOf(last.call))]) = 1

\* C18: a method changes no map but its own (AddCube cubes, AddDimension
\* dimensions, AddElement elements, AddComponent components, AddCell cells,
\* the others none), and whether AddElement, AddComponent and AddCell
\* succeed depends on their own map only: AddElement fails exactly when the
\* element's key is present, AddComponent exactly when the child's key is in
\* the parent's list, AddCell never, whatever dimensions, elements and cubes
\* were added.
C18_SubStoresIndependent ==
    [][LET c == last'.call
           r == last'.res
       IN  /\ c.kind # "AddCube" => UNCHANGED cubes
           /\ c.kind # "AddDimension" => UNCHANGED dimensions
           /\ c.kind # "AddElement" => UNCHANGED elements
           /\ c.kind # "AddComponent" => UNCHANGED components
           /\ c.kind # "AddCell" => UNCHANGED cells
           /\ (c.kind = "AddElement" /\ r.err # "Canceled")
                => (r.err = "nil" <=> ~Has(elements, KeyOf(TotOf(c))))
           /\ (c.kind = "AddComponent" /\ r.err # "Canceled")
                => (r.err = "nil" <=>
                      ~(/\ Has(components, KeyOf(TotOf(c)))
                        /\ KeyOf(ElOf(c)) \in Range(components[KeyOf(TotOf(c))])))
           /\ (c.kind = "AddCell" /\ r.err # "Canceled") => r.err = "nil"
      ]_vars

\* C18's case: AddCell has returned nil with no cube added, in a storage
\* that holds an element of a dimension that was not added and an edge
\* whose parent is no element
C18_Witness ==
    /\ Dispatched
    /\ last.call.kind = "AddCell"
    /\ last.res.err = "nil"
    /\ cubes = EmptyMap
    /\ dimensions = EmptyMap
    /\ elements # EmptyMap
    /\ \E k \in DOMAIN components : ~Has(elements, k) /\ components[k] # <<>>

----------------------------------------------------------------------------
(* Further properties of several callers *)

\* every goroutine has made one call, which took the delay branch and has
\* returned
AllCalledOnce ==
    /\ ncalls = NumThreads
    /\ \A t \in Threads : track[t].dispatched /\ pc[t] = "done"

\* one call has returned nil and every other one the error e
OneWins(e) ==
    \E t \in Threads :
        /\ res[t].err = "nil"
        /\ \A u \in Threads \ {t} : res[u].err = e

\* C16: of concurrent AddDimension calls of one name, concurrent AddElement
\* calls of one (dim, name) pair, or concurrent AddComponent calls of one
\* edge, exactly one returns nil and the others the AlreadyExists error; and
\* concurrent AddComponent calls of one parent and pairwise distinct
\* children all return nil, each child's identity being in the parent's
\* list exactly once.
C16_SameKeyWritersSerialized ==
    AllCalledOnce =>
      /\ (/\ \A t \in Threads : call[t].kind = "AddDimension"
          /\ \A t, u \in Threads : call[t].a = call[u].a)
         => OneWins("ErrDimensionAlreadyExists")
      /\ (/\ \A t \in Threads : call[t].kind = "AddElement"
          /\ \A t, u \in Threads : TotOf(call[t]) = TotOf(call[u]))
         => OneWins("ErrElementAlreadyExists")
      /\ (/\ \A t \in Threads : call[t].kind = "AddComponent"
          /\ \A t, u \in Threads : TotOf(call[t]) = TotOf(call[u])
          /\ \A t, u \in Threads : ElOf(call[t]) = ElOf(call[u]))
         => OneWins("ErrComponentAlreadyExists")
      /\ (/\ \A t \in Threads : call[t].kind = "AddComponent"
          /\ \A t, u \in Threads : TotOf(call[t]) = TotOf(call[u])
          /\ \A t, u \in Threads : ElOf(call[t]) = ElOf(call[u]) => t = u)
         => \A t \in Threads :
              /\ res[t].err = "nil"
              /\ Count(components[KeyOf(TotOf(call[t]))], KeyOf(ElOf(call[t]))) = 1

\* C20: what is stored only grows, in every step of every interleaving: a
\* key of the cubes, dimensions, elements or components stays, a stored
\* dimension or element does not change, and a parent's list changes only by
\* one identity appended at its end.
C20_StoredStateOnlyGrows ==
    [][/\ DOMAIN cubes \subseteq DOMAIN cubes'
       /\ DOMAIN dimensions \subseteq DOMAIN dimensions'
       /\ DOMAIN elements \subseteq DOMAIN elements'
       /\ DOMAIN components \subseteq DOMAIN components'
       /\ \A k \in DOMAIN dimensions : dimensions'[k] = dimensions[k]
       /\ \A k \in DOMAIN elements : elements'[k] = elements[k]
       /\ \A k \in DOMAIN components :
            \/ components'[k] = components[k]
            \/ /\ Len(components'[k]) = Len(components[k]) + 1
               /\ SubSeq(components'[k], 1, Len(components[k])) = components[k]
      ]_vars

\* C20's case: a parent's list has grown to two identities by AddComponent
\* calls that returned nil
C20_Witness ==
    /\ \E k \in DOMAIN components : Len(components[k]) = 2
    /\ \E t \in Threads :
         /\ pc[t] = "done"
         /\ call[t].kind = "AddComponent"
         /\ res[t].err = "nil"

====
